---- MODULE Spec2Model ----
(***************************************************************************)
(* Conversion-job orchestration of Dockling-WINGUI:                        *)
(*   gui_controller.py    ConversionController (owner + worker thread)     *)
(*   convert_to_markdown.py  convert_documents, DocumentConversionStats    *)
(*   progress_tracker.py  ProgressTracker, ConversionStats                 *)
(***************************************************************************)
EXTENDS Integers, Sequences, FiniteSets, TLC

VARIABLES
    \* ---- ConversionController (owner side), gui_controller.py:34-41
    config,            \* self.config: the dictionary read from the config panel
    is_running,        \* self.is_running
    stop_requested,    \* self.stop_requested
    message_queue,     \* self.message_queue (queue.Queue, FIFO)
    poll_scheduled,    \* a root.after(100, self._check_queue) timer is pending
    \* ---- module-level class Config (config.py), written by the worker
    Config,
    \* ---- worker thread: _conversion_worker and the convert_documents frame
    wpc,               \* position of the worker thread
    files,             \* the list handed to the worker: file sizes, in order
    fi,                \* pre-filter loop: number of files already examined
    files_to_convert,  \* positions (in files) of the items that passed the filter
    stats,             \* DocumentConversionStats
    tracker,           \* ProgressTracker
    idx,               \* enumerate(conv_results, 1): results taken from the engine
    conv_result,       \* the result the loop body is working on
    \* ---- the caller's locals of the tracker self-test
    progress_msg,      \* progress_tracker.py:298
    stats_msg,         \* progress_tracker.py:299
    eta,               \* the pair returned by tracker.get_eta()
    \* ---- history variables (not program state)
    emitted,           \* messages the worker has put on the queue in this run
    outcomes,          \* <<item, kind>> of every outcome recorded in this run
    halt,              \* why the result loop of this run ended
    stop_at,           \* item the engine was converting when a stop was requested
    asked_after_stop,  \* items whose engine step began after the flag was set
    handled,           \* messages _handle_message was called with in this run
    run_config,        \* the dictionary start_conversion read for this run
    stale_stop,        \* the worker has not run yet and start_conversion found
                       \* stop_requested set when it started it
    reset_from,        \* <<the tracker as it was>> if the last call was reset()
    \* ---- a caller of the tracker that holds on to the messages it was given
    held,              \* the messages, and the dictionary object of their 'stats'
    \* ---- the output names of a run (convert_documents, used_names)
    stems,             \* stems of the files whose document is saved, in order
    used_names,        \* the set used_names
    output_names       \* the names generate_unique_output_name has returned

vars == <<config, is_running, stop_requested, message_queue, poll_scheduled,
          Config, wpc, files, fi, files_to_convert, stats, tracker, idx,
          conv_result, progress_msg, stats_msg, eta, emitted, outcomes, halt,
          stop_at, asked_after_stop, handled, run_config, stale_stop,
          reset_from, held,
          stems, used_names, output_names>>

ownerVars   == <<config, is_running, stop_requested, message_queue, poll_scheduled>>
workerVars  == <<Config, wpc, files, fi, files_to_convert, stats, idx, conv_result>>
historyVars == <<emitted, outcomes, halt, stop_at, asked_after_stop>>
ownerHistory == <<handled, run_config, stale_stop>>
pureVars == <<held, stems, used_names, output_names>>
selfTestVars == <<progress_msg, stats_msg, eta, reset_from>>

---------------------------------------------------------------------------
(* Bounds of the model *)

MaxFiles == 2         \* files handed to one run
MaxErrors == 1        \* entries of conv_result.errors of a partial success
MaxTotalFiles == 50   \* total_files of a tracker of the self-test
MaxOther == 2         \* self-test: calls with a status other than success
MaxElapsed == 1       \* self-test: seconds elapsed since the tracker was created
MaxHeldTotal == 3     \* total_files of a tracker whose messages a caller holds
MaxStems == 4         \* documents saved in one run

---------------------------------------------------------------------------
(* Python float arithmetic (IEEE-754 binary64, round to nearest even), as   *)
(* used by int((total_processed / total_files) * 100).  A float is a record *)
(* [h, l, e] of value (h + l / 2^52) * 2^e: h the leading bits of the       *)
(* significand (1 for a quotient), l its next 52 bits as four limbs of 13   *)
(* bits, e the exponent; h = 0 is zero.  The significand keeps 53 bits.     *)

LimbBase == 8192

Pow2(n) == <<1, 2, 4, 8, 16, 32, 64, 128, 256, 512, 1024, 2048, 4096, 8192>>[n + 1]

FloatZero == [h |-> 0, l |-> <<0, 0, 0, 0>>, e |-> 0]

\* Number of bits of an integer 1 <= n < 2^13.
BitLength(n) == CHOOSE k \in 1..13 : Pow2(k - 1) <= n /\ n < Pow2(k)

\* c added at the last limb, the carries taken into h.
AddCarry(h, l, c) ==
    LET v4 == l[4] + c
        v3 == l[3] + v4 \div LimbBase
        v2 == l[2] + v3 \div LimbBase
        v1 == l[1] + v2 \div LimbBase
    IN  [h |-> h + v1 \div LimbBase,
         l |-> <<v1 % LimbBase, v2 % LimbBase, v3 % LimbBase, v4 % LimbBase>>]

\* <<a, b, e>> with a / b = p / t * 2^(-e) and 1 <= a / b < 2.
RECURSIVE Normalise(_, _, _)
Normalise(a, b, e) ==
    IF a >= 2 * b THEN Normalise(a, 2 * b, e + 1)
    ELSE IF a < b THEN Normalise(2 * a, b, e - 1)
    ELSE <<a, b, e>>

\* p / t for integers p >= 0, t > 0 (Python's true division, correctly rounded):
\* long division, 13 quotient bits at a time, then the rounding on the remainder.
FloatDiv(p, t) ==
    IF p = 0 THEN FloatZero
    ELSE LET n == Normalise(p, t, 0)
             b == n[2]
             d1 == (n[1] - b) * LimbBase
             d2 == (d1 % b) * LimbBase
             d3 == (d2 % b) * LimbBase
             d4 == (d3 % b) * LimbBase
             q == <<d1 \div b, d2 \div b, d3 \div b, d4 \div b>>
             r == d4 % b
             roundUp == \/ 2 * r > b
                        \/ 2 * r = b /\ q[4] % 2 = 1
             s == AddCarry(1, q, IF roundUp THEN 1 ELSE 0)
         IN  IF s.h = 2
             THEN [h |-> 1, l |-> <<0, 0, 0, 0>>, e |-> n[3] + 1]
             ELSE [h |-> 1, l |-> s.l, e |-> n[3]]

\* x * k for a float x and an integer 1 <= k < 2^12: the exact product, of which
\* the low bits beyond the 53rd are rounded away.
FloatMulInt(x, k) ==
    IF x.h = 0 THEN FloatZero
    ELSE LET v4 == x.l[4] * k
             v3 == x.l[3] * k + v4 \div LimbBase
             v2 == x.l[2] * k + v3 \div LimbBase
             v1 == x.l[1] * k + v2 \div LimbBase
             h == x.h * k + v1 \div LimbBase
             drop == BitLength(h) - 1
             low == (v4 % LimbBase) % Pow2(drop)
             kept == <<v1 % LimbBase, v2 % LimbBase, v3 % LimbBase,
                       (v4 % LimbBase) - low>>
             roundUp == /\ drop > 0
                        /\ \/ 2 * low > Pow2(drop)
                           \/ 2 * low = Pow2(drop)
                              /\ ((v4 % LimbBase) \div Pow2(drop)) % 2 = 1
             s == AddCarry(h, kept, IF roundUp THEN Pow2(drop) ELSE 0)
         IN  [h |-> s.h, l |-> s.l, e |-> x.e]

\* int(x) for a float 0 <= x < 2^26: truncation.
FloatToInt(x) ==
    IF x.h = 0 THEN 0
    ELSE IF x.e <= 0
         THEN IF x.e < -13 THEN 0 ELSE x.h \div Pow2(-x.e)
         ELSE x.h * Pow2(x.e) + x.l[1] \div Pow2(13 - x.e)

---------------------------------------------------------------------------
(* progress_tracker.py *)

\* ConversionStats()
ConversionStats == [success |-> 0, partial |-> 0, failed |-> 0, skipped |-> 0]

\* ConversionStats.total_processed
total_processed(s) == s.success + s.partial + s.failed + s.skipped

\* ConversionStats.to_dict
to_dict(s) ==
    [success |-> s.success, partial |-> s.partial,
     failed |-> s.failed, skipped |-> s.skipped]

\* ProgressTracker.__init__
ProgressTracker(total) ==
    [total_files |-> total, current_file_index |-> 0, current_filename |-> <<>>,
     stats |-> ConversionStats, file_start_times |-> {}, file_end_times |-> {}]

\* Mutant of start_file: the counters start again with every file.
start_file_resets(t, filename, index) ==
    [t EXCEPT !.current_file_index = index,
              !.current_filename = filename,
              !.stats = ConversionStats,
              !.file_start_times = @ \cup {index}]

\* ProgressTracker.start_file (the time stamps are kept as the set of their keys,
\* a file name as <<the number of the file>>, the empty name as <<>>)
start_file(t, filename, index) ==
    [t EXCEPT !.current_file_index = index,
              !.current_filename = filename,
              !.file_start_times = @ \cup {index}]

\* ProgressTracker.end_file
end_file(t, index) == [t EXCEPT !.file_end_times = @ \cup {index}]

\* str.lower() on the status strings the callers pass
lower(s) ==
    CASE s = "SUCCESS" -> "success"
      [] s = "Partial_Success" -> "partial_success"
      [] s = "FAILED" -> "failed"
      [] s = "Skipped" -> "skipped"
      [] OTHER -> s

\* Mutant of update_stats: the status is compared as it was passed, not lowered.
update_stats_without_lower(t, status) ==
    IF status = "success"
    THEN [t EXCEPT !.stats.success = @ + 1]
    ELSE IF status \in {"partial", "partial_success"}
    THEN [t EXCEPT !.stats.partial = @ + 1]
    ELSE IF status \in {"failed", "failure", "error"}
    THEN [t EXCEPT !.stats.failed = @ + 1]
    ELSE IF status = "skipped"
    THEN [t EXCEPT !.stats.skipped = @ + 1]
    ELSE t

\* ProgressTracker.update_stats
update_stats(t, status) ==
    LET status_lower == lower(status)
    IN  IF status_lower = "success"
        THEN [t EXCEPT !.stats.success = @ + 1]
        ELSE IF status_lower \in {"partial", "partial_success"}
        THEN [t EXCEPT !.stats.partial = @ + 1]
        ELSE IF status_lower \in {"failed", "failure", "error"}
        THEN [t EXCEPT !.stats.failed = @ + 1]
        ELSE IF status_lower = "skipped"
        THEN [t EXCEPT !.stats.skipped = @ + 1]
        ELSE t

\* int((processed / total) * 100) of get_progress_percentage, total > 0
Percentage(processed, total) == FloatToInt(FloatMulInt(FloatDiv(processed, total), 100))

\* The largest processed count a tracker of the model reaches.
MaxProcessed == MaxTotalFiles + MaxOther + 1

\* Percentage tabulated once: PercentageTable[total][processed + 1].  The rows
\* and the table are built by halving, so that the nesting stays shallow.
RECURSIVE PercentageRow(_, _, _)
PercentageRow(total, from, to) ==
    IF from = to THEN <<Percentage(from, total)>>
    ELSE LET mid == (from + to) \div 2
         IN  PercentageRow(total, from, mid) \o PercentageRow(total, mid + 1, to)

RECURSIVE PercentageRows(_, _)
PercentageRows(from, to) ==
    IF from = to THEN <<PercentageRow(from, 0, MaxProcessed)>>
    ELSE LET mid == (from + to) \div 2
         IN  PercentageRows(from, mid) \o PercentageRows(mid + 1, to)

PercentageTable == PercentageRows(1, MaxTotalFiles)

\* Mutant of get_progress_percentage: the files started are counted instead of
\* the files processed.
get_progress_percentage_of_started(t) ==
    IF t.total_files = 0 THEN 0
    ELSE Percentage(t.current_file_index, t.total_files)

\* Mutant of get_progress_percentage: the division by total_files is left out.
get_progress_percentage_undivided(t) ==
    IF t.total_files = 0 THEN 0 ELSE total_processed(t.stats) * 100

\* ProgressTracker.get_progress_percentage
get_progress_percentage(t) ==
    IF t.total_files = 0 THEN 0
    ELSE PercentageTable[t.total_files][total_processed(t.stats) + 1]

\* Mutant of reset: the counters are left as they are.
reset_keeps_stats(t) ==
    [t EXCEPT !.current_file_index = 0,
              !.current_filename = <<>>,
              !.file_start_times = {},
              !.file_end_times = {}]

\* ProgressTracker.reset
reset(t) ==
    [t EXCEPT !.current_file_index = 0,
              !.current_filename = <<>>,
              !.stats = ConversionStats,
              !.file_start_times = {},
              !.file_end_times = {}]

\* The 'calculating' sentinel of get_eta (the source's literal is Russian)
Calculating == "calculating..."

Digit(n) == <<"0", "1", "2", "3", "4", "5", "6", "7", "8", "9">>[n + 1]

\* f"{n:02d}" for 0 <= n < 100
TwoDigits(n) == Digit(n \div 10) \o Digit(n % 10)

\* ProgressTracker._format_time on a float of seconds: the floor divisions and
\* remainders of a float are exact, so the digits are those of its integer part.
_format_time(seconds) ==
    LET whole == FloatToInt(seconds)
        hours == whole \div 3600
        minutes == (whole % 3600) \div 60
        secs == whole % 60
    IN  TwoDigits(hours) \o ":" \o TwoDigits(minutes) \o ":" \o TwoDigits(secs)

\* ProgressTracker.get_average_time_per_file, elapsed = time.time() - start_time
get_average_time_per_file(t, elapsed) ==
    LET completed == total_processed(t.stats)
    IN  IF completed = 0 THEN FloatZero ELSE FloatDiv(elapsed, completed)

\* Mutant of get_eta: the test of the remaining files comes first.
get_eta_remaining_first(t, elapsed) ==
    LET processed == total_processed(t.stats)
        remaining_files == t.total_files - processed
    IN  IF remaining_files <= 0
        THEN [seconds |-> FloatZero, formatted |-> "00:00:00"]
        ELSE IF processed = 0
        THEN [seconds |-> FloatZero, formatted |-> Calculating]
        ELSE LET eta_seconds ==
                     FloatMulInt(get_average_time_per_file(t, elapsed), remaining_files)
             IN  [seconds |-> eta_seconds, formatted |-> _format_time(eta_seconds)]

\* ProgressTracker.get_eta: (seconds_remaining, formatted_string)
get_eta(t, elapsed) ==
    LET processed == total_processed(t.stats)
        remaining_files == t.total_files - processed
    IN  IF processed = 0
        THEN [seconds |-> FloatZero, formatted |-> Calculating]
        ELSE IF remaining_files <= 0
        THEN [seconds |-> FloatZero, formatted |-> "00:00:00"]
        ELSE LET eta_seconds ==
                     FloatMulInt(get_average_time_per_file(t, elapsed), remaining_files)
             IN  [seconds |-> eta_seconds, formatted |-> _format_time(eta_seconds)]

\* Mutant of to_progress_message: 'current' counts the files still to come.
to_progress_message_counting_down(t) ==
    [type |-> "progress", current |-> t.total_files - t.current_file_index,
     total |-> t.total_files, filename |-> t.current_filename,
     percentage |-> get_progress_percentage(t)]

\* ProgressTracker.to_progress_message
to_progress_message(t) ==
    [type |-> "progress", current |-> t.current_file_index,
     total |-> t.total_files, filename |-> t.current_filename,
     percentage |-> get_progress_percentage(t)]

\* ProgressTracker.to_stats_message
to_stats_message(t) ==
    [type |-> "stats", stats |-> to_dict(t.stats),
     total_processed |-> total_processed(t.stats)]

\* ProgressTracker.to_complete_message
to_complete_message(t) ==
    [type |-> "complete", stats |-> to_dict(t.stats),
     total_processed |-> total_processed(t.stats)]

\* Mutant of DictObject: to_dict hands out the dictionary of the ConversionStats
\* object itself.
DictObject_of_self(st) == [shared |-> TRUE, items |-> to_dict(st)]

\* The object ConversionStats.to_dict returns: a dict display, so a new
\* dictionary with the four integers, shared with nothing.
DictObject(st) == [shared |-> FALSE, items |-> to_dict(st)]

\* What a holder of a dictionary object reads in it while the tracker is t.
Items(d, t) == IF d.shared THEN to_dict(t.stats) ELSE d.items

---------------------------------------------------------------------------
(* The states of the variables a specification does not use *)

NoMessage == [type |-> "none"]
NoEta == [seconds |-> FloatZero, formatted |-> ""]
NoResult == [status |-> "none", nerrors |-> 0]
NoConfig == [CONTINUE_ON_ERROR |-> TRUE, MAX_FILE_SIZE |-> 0]
NoHeld == [type |-> "none"]

\* DocumentConversionStats.__init__
DocumentConversionStats ==
    [total_files |-> 0, successful |-> 0, partial_success |-> 0,
     failed |-> 0, skipped |-> 0]

OwnerIdle ==
    /\ config = NoConfig
    /\ is_running = FALSE
    /\ stop_requested = FALSE
    /\ message_queue = <<>>
    /\ poll_scheduled = FALSE

WorkerIdle ==
    /\ Config = NoConfig
    /\ wpc = "idle"
    /\ files = <<>>
    /\ fi = 0
    /\ files_to_convert = <<>>
    /\ stats = DocumentConversionStats
    /\ idx = 0
    /\ conv_result = NoResult

PureIdle ==
    /\ held = NoHeld
    /\ stems = <<>>
    /\ used_names = {}
    /\ output_names = <<>>

HistoryIdle ==
    /\ emitted = <<>>
    /\ outcomes = <<>>
    /\ halt = "none"
    /\ stop_at = 0
    /\ asked_after_stop = {}
    /\ handled = <<>>
    /\ run_config = NoConfig
    /\ stale_stop = FALSE

---------------------------------------------------------------------------
(* The tracker driven as by the self-test of progress_tracker.py: for each  *)
(* file start_file, update_stats, end_file, then the two messages.  The     *)
(* self-test passes a fixed list of statuses; here any status is passed.    *)

\* The status strings a caller may pass, one of them unknown to update_stats.
StatusStrings ==
    {"success", "SUCCESS", "partial", "partial_success", "Partial_Success",
     "failed", "FAILED", "failure", "error", "skipped", "Skipped", "cancelled"}

\* The kind of outcome a status string stands for (docstring of update_stats).
StatusKind(status) ==
    CASE status \in {"success", "SUCCESS"} -> "success"
      [] status \in {"partial", "partial_success", "Partial_Success"} -> "partial"
      [] status \in {"failed", "FAILED", "failure", "error"} -> "failed"
      [] status \in {"skipped", "Skipped"} -> "skipped"
      [] OTHER -> "unrecognised"

\* Calls of the self-test since the tracker was new or reset: those with a
\* status of the kind success, or those with any other status.
SelfTestCalls(kind) ==
    IF kind = "success" THEN tracker.stats.success
    ELSE tracker.current_file_index - tracker.stats.success

\* tracker = ProgressTracker(total_files=...)
SelfTestInit ==
    /\ OwnerIdle /\ WorkerIdle /\ HistoryIdle /\ PureIdle
    /\ \E total \in 0..MaxTotalFiles : tracker = ProgressTracker(total)
    /\ progress_msg = NoMessage
    /\ stats_msg = NoMessage
    /\ eta = get_eta(tracker, 0)
    /\ reset_from = <<>>

\* One iteration of the self-test loop.
SelfTestStep(status) ==
    LET i == tracker.current_file_index + 1
        kind == StatusKind(status)
    IN  /\ IF kind = "success"
           THEN SelfTestCalls(kind) <= tracker.total_files
           ELSE SelfTestCalls(kind) < MaxOther
        /\ tracker' = end_file(update_stats(start_file(tracker, <<i>>, i), status), i)
        /\ progress_msg' = to_progress_message(tracker')
        /\ stats_msg' = to_stats_message(tracker')
        /\ \E elapsed \in 0..MaxElapsed : eta' = get_eta(tracker', elapsed)
        /\ reset_from' = <<>>
        /\ UNCHANGED <<ownerVars, workerVars, historyVars, ownerHistory, pureVars>>

\* tracker.reset() between two sessions, then the messages and the ETA are taken.
SelfTestReset ==
    /\ tracker' = reset(tracker)
    /\ progress_msg' = to_progress_message(tracker')
    /\ stats_msg' = to_stats_message(tracker')
    /\ \E elapsed \in 0..MaxElapsed : eta' = get_eta(tracker', elapsed)
    /\ reset_from' = <<tracker>>
    /\ UNCHANGED <<ownerVars, workerVars, historyVars, ownerHistory, pureVars>>

SelfTestNext ==
    \/ \E status \in StatusStrings : SelfTestStep(status)
    \/ SelfTestReset

SelfTestSpec == SelfTestInit /\ [][SelfTestNext]_vars

---------------------------------------------------------------------------
(* A caller that holds on to the messages the tracker gave it while it goes *)
(* on calling the tracker, as the queue and the panels do with the messages *)
(* of a run.                                                                *)

HoldInit ==
    /\ SelfTestInit
    /\ tracker.total_files <= MaxHeldTotal

\* progress_msg = tracker.to_progress_message() and so on, kept for later; the
\* 'stats' entries of the stats and complete messages are the dictionary
\* to_dict returned.
SelfTestHold ==
    /\ held' = [type |-> "held",
                dict |-> DictObject(tracker.stats),
                progress |-> to_progress_message(tracker),
                stats |-> to_stats_message(tracker),
                complete |-> to_complete_message(tracker)]
    /\ UNCHANGED <<ownerVars, workerVars, tracker, historyVars, selfTestVars,
                   ownerHistory, stems, used_names, output_names>>

HoldNext == SelfTestNext \/ SelfTestHold

HoldSpec == HoldInit /\ [][HoldNext]_vars

---------------------------------------------------------------------------
(* convert_to_markdown.py: DocumentConversionStats *)

add_success(st) == [st EXCEPT !.successful = @ + 1]
\* Mutant of add_partial_success: a partial success counts as a success too.
add_partial_success_and_success(st) ==
    [st EXCEPT !.partial_success = @ + 1, !.successful = @ + 1]

add_partial_success(st) == [st EXCEPT !.partial_success = @ + 1]
add_failure(st) == [st EXCEPT !.failed = @ + 1]
add_skipped(st) == [st EXCEPT !.skipped = @ + 1]

---------------------------------------------------------------------------
(* Messages on the queue *)

\* A 'log' dictionary built by convert_documents or _conversion_worker itself.
LogMessage(level, text, item) ==
    [type |-> "log", level |-> level, message |-> text, item |-> item,
     formatted |-> FALSE]

\* A record of the logging module.  LogCapture put a GuiLogHandler on the root
\* logger, whose level stays WARNING (logging.basicConfig finds a handler and
\* does nothing): records from WARNING up are formatted and put on the queue by
\* _on_log_message, in the thread that logs.
HandlerMessages(level, text, item) ==
    IF level \in {"WARNING", "ERROR"}
    THEN <<[type |-> "log", level |-> level, message |-> text, item |-> item,
            formatted |-> TRUE]>>
    ELSE <<>>

\* Mutant of CompleteMessage: the counters are those of the tracker
\* (to_complete_message), which never hears of the pre-filter.
CompleteMessage_of_tracker(st) ==
    [type |-> "complete", stats |-> to_dict(tracker.stats)]

\* The 'complete' dictionary of _conversion_worker.
CompleteMessage(st) ==
    [type |-> "complete",
     stats |-> [success |-> st.successful, partial |-> st.partial_success,
                failed |-> st.failed, skipped |-> st.skipped]]

\* The 'error' dictionary of _conversion_worker.
ErrorMessage == [type |-> "error"]

TerminalTypes == {"complete", "error"}

---------------------------------------------------------------------------
(* Inputs *)

\* File sizes, and the values of MAX_FILE_SIZE: -1 is rejected by
\* validate_config, 0 means no limit.
FileSizes == {1, 2}
SizeLimits == {-1, 0, 1}

ConfigValues == [CONTINUE_ON_ERROR : BOOLEAN, MAX_FILE_SIZE : SizeLimits]

RECURSIVE SeqsUpTo(_, _)
SeqsUpTo(S, n) ==
    IF n = 0 THEN {<<>>}
    ELSE LET shorter == SeqsUpTo(S, n - 1)
         IN  shorter \cup {Append(q, x) : q \in {r \in shorter : Len(r) = n - 1}, x \in S}

FileLists == SeqsUpTo(FileSizes, MaxFiles)

\* What the engine may yield for an item.
EngineResults ==
    {[status |-> "SUCCESS", nerrors |-> 0], [status |-> "FAILURE", nerrors |-> 0]}
    \cup [status : {"PARTIAL_SUCCESS"}, nerrors : 1..MaxErrors]

---------------------------------------------------------------------------
(* gui_controller.py: the owner *)

\* ConfigManager.validate_config: the errors found (of the keys modelled)
validate_config(cfg) ==
    IF cfg.MAX_FILE_SIZE < 0 THEN {"Max file size cannot be negative"} ELSE {}

\* ConversionController._scan_directory on the listing of the input directory
_scan_directory(listed, cfg) ==
    IF cfg.MAX_FILE_SIZE > 0
    THEN SelectSeq(listed, LAMBDA size : size <= cfg.MAX_FILE_SIZE)
    ELSE listed

\* Mutant of _on_conversion_error: is_running is left as it was.
_on_conversion_error_keeps_running(running) == running

\* _on_conversion_complete and _on_conversion_error: the new value of is_running
_on_conversion_complete(running) == FALSE
_on_conversion_error(running) == FALSE

\* Mutant of _handle_message: a 'stats' message clears is_running too.
_handle_message_stats_stops(running, message) ==
    IF message.type \in {"complete", "error", "stats"} THEN FALSE ELSE running

\* _handle_message: the new value of is_running
_handle_message(running, message) ==
    IF message.type = "complete" THEN _on_conversion_complete(running)
    ELSE IF message.type = "error" THEN _on_conversion_error(running)
    ELSE running

\* The loop of _check_queue: every message of the queue is handled, in order.
\* Handlers only ever clear is_running, so the result is FALSE as soon as one
\* message clears it.
HandleAll(running, queue) ==
    IF \E i \in 1..Len(queue) : ~_handle_message(TRUE, queue[i])
    THEN FALSE
    ELSE running

\* Mutant of Reschedule: the timer is set whatever is_running is.
Reschedule_always(running) == TRUE

\* The end of _check_queue: root.after(100, self._check_queue) if still running.
Reschedule(running) == running

\* Mutant of CheckQueueFrom: the queue hands out the newest message first.
CheckQueueFrom_newest_first(running, before) ==
    /\ is_running' = HandleAll(running, message_queue)
    /\ handled' = before \o [i \in 1..Len(message_queue) |->
                                 message_queue[Len(message_queue) + 1 - i]]
    /\ message_queue' = <<>>
    /\ poll_scheduled' = Reschedule(is_running')

\* _check_queue, as called by start_conversion and by the timer: get_nowait and
\* _handle_message until the queue is empty, then the timer.  'before' is the
\* history of the messages handled.
CheckQueueFrom(running, before) ==
    /\ is_running' = HandleAll(running, message_queue)
    /\ handled' = before \o message_queue
    /\ message_queue' = <<>>
    /\ poll_scheduled' = Reschedule(is_running')

\* The worker thread is started: its frame is fresh.
RunBegins(fl) ==
    /\ wpc' = "begin"
    /\ files' = fl
    /\ fi' = 0
    /\ files_to_convert' = <<>>
    /\ stats' = DocumentConversionStats
    /\ tracker' = ProgressTracker(0)
    /\ idx' = 0
    /\ conv_result' = NoResult
    /\ emitted' = <<>>
    /\ outcomes' = <<>>
    /\ halt' = "none"
    /\ stop_at' = 0
    /\ asked_after_stop' = {}

\* What start_conversion finds when it looks for the files: the processing
\* mode, whether the input directory exists, and the files listed there (folder
\* mode) or selected (files mode).
StartInputs ==
    [mode : {"folder", "files"}, exists : {TRUE}, listed : FileLists]
    \cup {[mode |-> "folder", exists |-> FALSE, listed |-> <<>>]}

\* Mutant of ReadAndStart: stop_requested is not cleared when a run starts.
ReadAndStart_keeps_stop ==
    \E cfg \in ConfigValues :
       /\ config' = cfg
       /\ IF validate_config(cfg) # {}
          THEN UNCHANGED <<is_running, stop_requested, message_queue,
                           poll_scheduled, workerVars, tracker, historyVars,
                           selfTestVars, ownerHistory, pureVars>>
          ELSE \E in \in StartInputs :
                 LET fl == IF in.mode = "folder"
                           THEN IF in.exists
                                THEN _scan_directory(in.listed, cfg)
                                ELSE <<>>
                           ELSE in.listed
                 IN  IF fl = <<>>
                     THEN UNCHANGED <<is_running, stop_requested, message_queue,
                                      poll_scheduled, workerVars, tracker,
                                      historyVars, selfTestVars, ownerHistory, pureVars>>
                     ELSE /\ stop_requested' = stop_requested
                          /\ RunBegins(fl)
                          /\ run_config' = cfg
                          /\ stale_stop' = stop_requested
                          /\ CheckQueueFrom(TRUE, <<>>)
                          /\ UNCHANGED <<Config, selfTestVars, pureVars>>

\* start_conversion after the check of is_running: the configuration is read
\* and validated, the files are looked for, the worker thread is started and
\* _check_queue is called.
ReadAndStart ==
    \E cfg \in ConfigValues :
       /\ config' = cfg
       /\ IF validate_config(cfg) # {}
          THEN UNCHANGED <<is_running, stop_requested, message_queue,
                           poll_scheduled, workerVars, tracker, historyVars,
                           selfTestVars, ownerHistory, pureVars>>
          ELSE \E in \in StartInputs :
                 LET fl == IF in.mode = "folder"
                           THEN IF in.exists
                                THEN _scan_directory(in.listed, cfg)
                                ELSE <<>>
                           ELSE in.listed
                 IN  IF fl = <<>>
                     THEN UNCHANGED <<is_running, stop_requested, message_queue,
                                      poll_scheduled, workerVars, tracker,
                                      historyVars, selfTestVars, ownerHistory, pureVars>>
                     ELSE /\ stop_requested' = FALSE
                          /\ RunBegins(fl)
                          /\ run_config' = cfg
                          /\ stale_stop' = stop_requested
                          /\ CheckQueueFrom(TRUE, <<>>)
                          /\ UNCHANGED <<Config, selfTestVars, pureVars>>

\* Mutant of start_conversion: is_running is not looked at.
start_conversion_unguarded == ReadAndStart

\* Mutant of start_conversion: a call during a run clears the stop request.
start_conversion_resets_stop ==
    IF is_running
    THEN /\ stop_requested' = FALSE
         /\ UNCHANGED <<config, is_running, message_queue, poll_scheduled,
                        workerVars, tracker, historyVars, selfTestVars,
                        ownerHistory, pureVars>>
    ELSE ReadAndStart

\* ConversionController.start_conversion
start_conversion ==
    IF is_running
    THEN UNCHANGED vars
    ELSE ReadAndStart

\* Mutant of stop_conversion: the run is taken to be over as soon as the stop
\* is requested.
stop_conversion_retires_run ==
    IF ~is_running
    THEN UNCHANGED vars
    ELSE /\ stop_requested' = TRUE
         /\ is_running' = FALSE
         /\ stop_at' = IF wpc = "engine" THEN idx ELSE stop_at
         /\ UNCHANGED <<config, message_queue, poll_scheduled,
                        workerVars, tracker, emitted, outcomes, halt,
                        asked_after_stop, selfTestVars, ownerHistory, pureVars>>

\* Mutant of stop_conversion: the warning is put on the queue as a 'log' message
\* instead of being written to the log panel.
stop_conversion_puts_log ==
    IF ~is_running
    THEN UNCHANGED vars
    ELSE /\ stop_requested' = TRUE
         /\ stop_at' = IF wpc = "engine" THEN idx ELSE stop_at
         /\ message_queue' = Append(message_queue, LogMessage("WARNING", "stop requested", 0))
         /\ UNCHANGED <<config, is_running, poll_scheduled,
                        workerVars, tracker, emitted, outcomes, halt,
                        asked_after_stop, selfTestVars, ownerHistory, pureVars>>

\* ConversionController.stop_conversion
stop_conversion ==
    IF ~is_running
    THEN UNCHANGED vars
    ELSE /\ stop_requested' = TRUE
         /\ stop_at' = IF wpc = "engine" THEN idx ELSE stop_at
         /\ UNCHANGED <<config, is_running, message_queue, poll_scheduled,
                        workerVars, tracker, emitted, outcomes, halt,
                        asked_after_stop, selfTestVars, ownerHistory, pureVars>>

\* The timer fires: ConversionController._check_queue
_check_queue ==
    /\ poll_scheduled
    /\ CheckQueueFrom(is_running, handled)
    /\ UNCHANGED <<config, stop_requested, workerVars, tracker, historyVars,
                   selfTestVars, run_config, stale_stop, pureVars>>

\* Mutant of save_settings: the button is not disabled during a run.
save_settings_while_running ==
    /\ config' \in ConfigValues
    /\ UNCHANGED <<is_running, stop_requested, message_queue, poll_scheduled,
                   workerVars, tracker, historyVars, selfTestVars, ownerHistory, pureVars>>

\* ConversionController.save_settings, the command of the "save settings"
\* button, which set_running_state disables for the time is_running is set:
\* self.config is replaced by what the config panel holds, before it is
\* validated; the file is written if it is valid.
save_settings ==
    /\ ~is_running
    /\ config' \in ConfigValues
    /\ UNCHANGED <<is_running, stop_requested, message_queue, poll_scheduled,
                   workerVars, tracker, historyVars, selfTestVars, ownerHistory, pureVars>>

---------------------------------------------------------------------------
(* gui_controller.py and convert_to_markdown.py: the worker thread *)

\* self.message_queue.put, once per message
Put(msgs) ==
    /\ message_queue' = message_queue \o msgs
    /\ emitted' = emitted \o msgs

\* Mutant of Raised: the exception is not caught and ends the worker thread.
Raised_escapes ==
    /\ wpc' = "done"
    /\ halt' = "raised"

\* The except clause of _conversion_worker is entered.
Raised ==
    /\ wpc' = "except"
    /\ halt' = "raised"

\* _conversion_worker: the settings are copied into the class Config.
WorkerBegin ==
    /\ wpc = "begin"
    /\ Config' = config
    /\ wpc' = "setup"
    /\ stale_stop' = FALSE
    /\ UNCHANGED <<ownerVars, files, fi, files_to_convert, stats, idx, conv_result,
                   tracker, historyVars, selfTestVars, handled, run_config, pureVars>>

\* _conversion_worker up to the call of convert_documents: the output directory,
\* the first log message, the converter, the statistics object.  Making the
\* directory or the converter may raise.
WorkerSetup(failure) ==
    /\ wpc = "setup"
    /\ Put(IF failure = "mkdir" THEN <<>>
           ELSE <<LogMessage("INFO", "setting up", 0)>>)
    /\ IF failure = "none"
       THEN /\ stats' = DocumentConversionStats
            /\ wpc' = "filter"
            /\ halt' = halt
       ELSE /\ stats' = stats
            /\ Raised
    /\ UNCHANGED <<config, is_running, stop_requested, poll_scheduled, Config, files,
                   fi, files_to_convert, idx, conv_result, tracker, outcomes,
                   stop_at, asked_after_stop, selfTestVars, ownerHistory, pureVars>>

\* Mutant of PreFilter: the continue after add_skipped is missing.
PreFilter_without_continue(statRaises) ==
    /\ wpc = "filter"
    /\ fi < Len(files)
    /\ LET item == fi + 1
           file_size == files[item]
       IN  IF statRaises
           THEN /\ Raised
                /\ Put(<<>>)
                /\ UNCHANGED <<fi, files_to_convert, stats, outcomes>>
           ELSE /\ fi' = item
                /\ UNCHANGED <<wpc, halt>>
                /\ IF Config.MAX_FILE_SIZE > 0 /\ file_size > Config.MAX_FILE_SIZE
                   THEN /\ Put(HandlerMessages("WARNING", "file too large", item))
                        /\ stats' = add_skipped(stats)
                        /\ outcomes' = Append(outcomes, <<item, "skipped">>)
                        /\ files_to_convert' = Append(files_to_convert, item)
                   ELSE /\ Put(<<>>)
                        /\ files_to_convert' = Append(files_to_convert, item)
                        /\ UNCHANGED <<stats, outcomes>>
    /\ UNCHANGED <<config, is_running, stop_requested, poll_scheduled, Config, files,
                   idx, conv_result, tracker, stop_at, asked_after_stop,
                   selfTestVars, ownerHistory, pureVars>>

\* convert_documents, one iteration of the size filter.  stat() may raise, and
\* the loop is outside the try statement.
PreFilter(statRaises) ==
    /\ wpc = "filter"
    /\ fi < Len(files)
    /\ LET item == fi + 1
           file_size == files[item]
       IN  IF statRaises
           THEN /\ Raised
                /\ Put(<<>>)
                /\ UNCHANGED <<fi, files_to_convert, stats, outcomes>>
           ELSE /\ fi' = item
                /\ UNCHANGED <<wpc, halt>>
                /\ IF Config.MAX_FILE_SIZE > 0 /\ file_size > Config.MAX_FILE_SIZE
                   THEN /\ Put(HandlerMessages("WARNING", "file too large", item))
                        /\ stats' = add_skipped(stats)
                        /\ outcomes' = Append(outcomes, <<item, "skipped">>)
                        /\ UNCHANGED files_to_convert
                   ELSE /\ Put(<<>>)
                        /\ files_to_convert' = Append(files_to_convert, item)
                        /\ UNCHANGED <<stats, outcomes>>
    /\ UNCHANGED <<config, is_running, stop_requested, poll_scheduled, Config, files,
                   idx, conv_result, tracker, stop_at, asked_after_stop,
                   selfTestVars, ownerHistory, pureVars>>

\* convert_documents from the end of the filter to the for statement: the total,
\* the early return, the start message, the tracker, the first progress message
\* and the (lazy) call of convert_all.
FilterDone ==
    /\ wpc = "filter"
    /\ fi = Len(files)
    /\ stats' = [stats EXCEPT !.total_files = Len(files_to_convert)]
    /\ IF files_to_convert = <<>>
       THEN /\ Put(HandlerMessages("WARNING", "no files", 0))
            /\ wpc' = "complete"
            /\ halt' = "empty"
            /\ UNCHANGED tracker
       ELSE LET t == start_file(ProgressTracker(Len(files_to_convert)), <<files_to_convert[1]>>, 1)
            IN  /\ Put(<<LogMessage("INFO", "start", 0), to_progress_message(t)>>)
                /\ tracker' = t
                /\ wpc' = "next"
                /\ UNCHANGED halt
    /\ idx' = 0
    /\ UNCHANGED <<config, is_running, stop_requested, poll_scheduled, Config, files,
                   fi, files_to_convert, conv_result, outcomes, stop_at,
                   asked_after_stop, selfTestVars, ownerHistory, pureVars>>

\* The for statement asks conv_results for its next result: the engine starts
\* on the next item, or the stream is exhausted and convert_documents returns.
NextResult ==
    /\ wpc = "next"
    /\ IF idx = Len(files_to_convert)
       THEN /\ wpc' = "complete"
            /\ halt' = "exhausted"
            /\ UNCHANGED <<idx, asked_after_stop>>
       ELSE /\ wpc' = "engine"
            /\ idx' = idx + 1
            /\ asked_after_stop' =
                   IF stop_requested THEN asked_after_stop \cup {idx + 1}
                   ELSE asked_after_stop
            /\ UNCHANGED halt
    /\ UNCHANGED <<ownerVars, Config, files, fi, files_to_convert, stats, conv_result,
                   tracker, emitted, outcomes, stop_at, selfTestVars, ownerHistory, pureVars>>

\* The engine yields the result of the item it was converting.  convert_all is
\* called with raises_on_error = not CONTINUE_ON_ERROR: with the flag off the
\* engine raises for a failed conversion instead of yielding its result.
EngineYields(result) ==
    /\ wpc = "engine"
    /\ result.status = "FAILURE" => Config.CONTINUE_ON_ERROR
    /\ conv_result' = result
    /\ wpc' = "check"
    /\ UNCHANGED <<ownerVars, Config, files, fi, files_to_convert, stats, idx,
                   tracker, historyVars, selfTestVars, ownerHistory, pureVars>>

\* Mutant of Reraises: the except clause of convert_documents never raises.
Reraises_never(cfg) == FALSE

\* What the except clause of convert_documents does with an exception.
Reraises(cfg) == ~cfg.CONTINUE_ON_ERROR

\* The engine raises instead: the except clause of convert_documents logs the
\* exception and raises it again unless CONTINUE_ON_ERROR is set.
EngineRaises ==
    /\ wpc = "engine"
    /\ Put(HandlerMessages("ERROR", "critical error", 0))
    /\ IF Reraises(Config)
       THEN Raised
       ELSE /\ wpc' = "complete"
            /\ halt' = "swallowed"
    /\ UNCHANGED <<config, is_running, stop_requested, poll_scheduled, Config, files,
                   fi, files_to_convert, stats, idx, conv_result, tracker,
                   outcomes, stop_at, asked_after_stop, selfTestVars, ownerHistory, pureVars>>

\* stop_check(): lambda: self.stop_requested
stop_check == stop_requested

\* Mutant of StopCheck: the stop is signalled by raising instead of break.
StopCheck_raises ==
    /\ wpc = "check"
    /\ IF stop_check
       THEN /\ Put(HandlerMessages("WARNING", "stopped", 0))
            /\ wpc' = "except"
            /\ halt' = "stopped"
       ELSE /\ Put(<<>>)
            /\ wpc' = "body"
            /\ UNCHANGED halt
    /\ UNCHANGED <<config, is_running, stop_requested, poll_scheduled, Config, files,
                   fi, files_to_convert, stats, idx, conv_result, tracker,
                   outcomes, stop_at, asked_after_stop, selfTestVars, ownerHistory, pureVars>>

\* The first statement of the loop body: the stop check, with the result of the
\* item already taken from the engine.
StopCheck ==
    /\ wpc = "check"
    /\ IF stop_check
       THEN /\ Put(HandlerMessages("WARNING", "stopped", 0))
            /\ wpc' = "complete"
            /\ halt' = "stopped"
       ELSE /\ Put(<<>>)
            /\ wpc' = "body"
            /\ UNCHANGED halt
    /\ UNCHANGED <<config, is_running, stop_requested, poll_scheduled, Config, files,
                   fi, files_to_convert, stats, idx, conv_result, tracker,
                   outcomes, stop_at, asked_after_stop, selfTestVars, ownerHistory, pureVars>>

\* Mutant of OutcomeKind: the outcome follows the engine's status whether or not
\* the save raised.
OutcomeKind_of_status(result, saveRaises) ==
    IF result.status = "SUCCESS" THEN "success"
    ELSE IF result.status = "PARTIAL_SUCCESS" THEN "partial"
    ELSE "failed"

\* The outcome of an item: the branch of the loop body taken.
OutcomeKind(result, saveRaises) ==
    IF result.status = "SUCCESS"
    THEN IF saveRaises THEN "failed" ELSE "success"
    ELSE IF result.status = "PARTIAL_SUCCESS"
    THEN IF saveRaises THEN "failed" ELSE "partial"
    ELSE "failed"

RECURSIVE Repeat(_, _)
Repeat(msgs, n) == IF n = 0 THEN <<>> ELSE msgs \o Repeat(msgs, n - 1)

\* The log messages of the branch.
OutcomeLogs(result, saveRaises, item) ==
    IF result.status \in {"SUCCESS", "PARTIAL_SUCCESS"} /\ saveRaises
    THEN HandlerMessages("ERROR", "save error", item)
         \o <<LogMessage("ERROR", "save error", item)>>
    ELSE IF result.status = "SUCCESS"
    THEN HandlerMessages("INFO", "saved", item)
         \o <<LogMessage("INFO", "saved", item)>>
    ELSE IF result.status = "PARTIAL_SUCCESS"
    THEN HandlerMessages("WARNING", "partial", item)
         \o <<LogMessage("WARNING", "partial", item)>>
         \o Repeat(HandlerMessages("WARNING", "partial detail", item)
                   \o <<LogMessage("WARNING", "partial detail", item)>>,
                   result.nerrors)
    ELSE HandlerMessages("ERROR", "conversion error", item)
         \o <<LogMessage("ERROR", "conversion error", item)>>

\* Mutant of RecordOutcome: a failure is not counted in the statistics.
RecordOutcome_failure_uncounted(st, kind) ==
    IF kind = "success" THEN add_success(st)
    ELSE IF kind = "partial" THEN add_partial_success(st)
    ELSE st

\* stats.add_success / add_partial_success / add_failure of the branch
RecordOutcome(st, kind) ==
    IF kind = "success" THEN add_success(st)
    ELSE IF kind = "partial" THEN add_partial_success(st)
    ELSE add_failure(st)

\* The rest of the loop body for the result in hand: start_file and its progress
\* message, then the branch on the status: save, log, count, update the tracker,
\* the stats message and the progress message.
LoopBody(saveRaises) ==
    /\ wpc = "body"
    /\ saveRaises => conv_result.status \in {"SUCCESS", "PARTIAL_SUCCESS"}
    /\ LET item == files_to_convert[idx]
           kind == OutcomeKind(conv_result, saveRaises)
           t1 == start_file(tracker, <<item>>, idx)
           t2 == end_file(update_stats(t1, kind), idx)
       IN  /\ Put(<<to_progress_message(t1)>>
                  \o OutcomeLogs(conv_result, saveRaises, item)
                  \o <<to_stats_message(t2), to_progress_message(t2)>>)
           /\ stats' = RecordOutcome(stats, kind)
           /\ tracker' = t2
           /\ outcomes' = Append(outcomes, <<item, kind>>)
    /\ wpc' = "next"
    /\ UNCHANGED <<config, is_running, stop_requested, poll_scheduled, Config, files,
                   fi, files_to_convert, idx, conv_result, halt, stop_at,
                   asked_after_stop, selfTestVars, ownerHistory, pureVars>>

\* Mutant of WorkerComplete: the worker clears the stop flag when it is done.
WorkerComplete_clears_stop ==
    /\ wpc = "complete"
    /\ Put(<<CompleteMessage(stats)>>)
    /\ wpc' = "done"
    /\ stop_requested' = FALSE
    /\ UNCHANGED <<config, is_running, poll_scheduled, Config, files,
                   fi, files_to_convert, stats, idx, conv_result, tracker,
                   outcomes, halt, stop_at, asked_after_stop, selfTestVars, ownerHistory, pureVars>>

\* _conversion_worker after convert_documents returned: the 'complete' message.
WorkerComplete ==
    /\ wpc = "complete"
    /\ Put(<<CompleteMessage(stats)>>)
    /\ wpc' = "done"
    /\ UNCHANGED <<config, is_running, stop_requested, poll_scheduled, Config, files,
                   fi, files_to_convert, stats, idx, conv_result, tracker,
                   outcomes, halt, stop_at, asked_after_stop, selfTestVars, ownerHistory, pureVars>>

\* Mutant of WorkerExcept: the exception is logged and no 'error' message is put.
WorkerExcept_only_logs ==
    /\ wpc = "except"
    /\ Put(HandlerMessages("ERROR", "error in conversion worker", 0))
    /\ wpc' = "done"
    /\ UNCHANGED <<config, is_running, stop_requested, poll_scheduled, Config, files,
                   fi, files_to_convert, stats, idx, conv_result, tracker,
                   outcomes, halt, stop_at, asked_after_stop, selfTestVars, ownerHistory, pureVars>>

\* The except clause of _conversion_worker: logging.exception, then the 'error'
\* message.
WorkerExcept ==
    /\ wpc = "except"
    /\ Put(HandlerMessages("ERROR", "error in conversion worker", 0)
           \o <<ErrorMessage>>)
    /\ wpc' = "done"
    /\ UNCHANGED <<config, is_running, stop_requested, poll_scheduled, Config, files,
                   fi, files_to_convert, stats, idx, conv_result, tracker,
                   outcomes, halt, stop_at, asked_after_stop, selfTestVars, ownerHistory, pureVars>>

---------------------------------------------------------------------------
(* The controller and its worker *)

Init ==
    /\ config \in {c \in ConfigValues : validate_config(c) = {}}
    /\ is_running = FALSE
    /\ stop_requested = FALSE
    /\ message_queue = <<>>
    /\ poll_scheduled = FALSE
    /\ WorkerIdle
    /\ tracker = ProgressTracker(0)
    /\ HistoryIdle
    /\ PureIdle
    /\ progress_msg = NoMessage
    /\ stats_msg = NoMessage
    /\ eta = NoEta
    /\ reset_from = <<>>

Worker ==
    \/ WorkerBegin
    \/ \E failure \in {"none", "mkdir", "converter"} : WorkerSetup(failure)
    \/ \E statRaises \in BOOLEAN : PreFilter(statRaises)
    \/ FilterDone
    \/ NextResult
    \/ \E result \in EngineResults : EngineYields(result)
    \/ EngineRaises
    \/ StopCheck
    \/ \E saveRaises \in BOOLEAN : LoopBody(saveRaises)
    \/ WorkerComplete
    \/ WorkerExcept

Owner ==
    \/ start_conversion
    \/ stop_conversion
    \/ _check_queue
    \/ save_settings

Next == Owner \/ Worker

Spec == Init /\ [][Next]_vars

\* The worker and the poll timer are scheduled fairly, and every engine call
\* returns (EngineYields and EngineRaises are steps of Worker).
FairSpec == Spec /\ WF_vars(Worker) /\ WF_vars(_check_queue)

---------------------------------------------------------------------------
(* convert_to_markdown.py: the output names of a run.  convert_documents    *)
(* makes used_names empty and calls generate_unique_output_name for every   *)
(* item whose document it saves, with the stem of the item's path.          *)

\* Path.stem of the files: stems that repeat, and stems that read as a name
\* generated for another stem.
Stems == {"a", "a_1", "a_1_1", "b"}

\* str(counter) in the f-string
RECURSIVE Decimal(_)
Decimal(n) == IF n < 10 THEN Digit(n) ELSE Decimal(n \div 10) \o Digit(n % 10)

\* The while loop of generate_unique_output_name, entered with output_name
\* in used: f"{base_name}_{counter}.md" for counter, counter + 1, ...
RECURSIVE NumberedName(_, _, _)
NumberedName(base_name, counter, used) ==
    LET output_name == base_name \o "_" \o Decimal(counter) \o ".md"
    IN  IF output_name \in used
        THEN NumberedName(base_name, counter + 1, used)
        ELSE output_name

\* Mutant of generate_unique_output_name: the name is not added to used_names.
generate_unique_output_name_without_add(output_dir, base_name, used) ==
    LET first_name == base_name \o ".md"
        output_name == IF first_name \in used
                       THEN NumberedName(base_name, 1, used)
                       ELSE first_name
    IN  [output_name |-> output_name, used_names |-> used]

\* generate_unique_output_name: the name returned and the set used_names as the
\* call leaves it.  output_dir is not looked at.
generate_unique_output_name(output_dir, base_name, used) ==
    LET first_name == base_name \o ".md"
        output_name == IF first_name \in used
                       THEN NumberedName(base_name, 1, used)
                       ELSE first_name
    IN  [output_name |-> output_name, used_names |-> used \cup {output_name}]

\* used_names = set(), and the stems of the items that will be saved
NamesInit ==
    /\ OwnerIdle /\ WorkerIdle /\ HistoryIdle
    /\ tracker = ProgressTracker(0)
    /\ progress_msg = NoMessage
    /\ stats_msg = NoMessage
    /\ eta = NoEta
    /\ reset_from = <<>>
    /\ held = NoHeld
    /\ stems \in SeqsUpTo(Stems, MaxStems)
    /\ used_names = {}
    /\ output_names = <<>>

\* The loop body reaches the save of the next item.
SaveNextDocument ==
    /\ Len(output_names) < Len(stems)
    /\ LET named == generate_unique_output_name("output",
                                                stems[Len(output_names) + 1],
                                                used_names)
       IN  /\ output_names' = Append(output_names, named.output_name)
           /\ used_names' = named.used_names
    /\ UNCHANGED <<ownerVars, workerVars, tracker, historyVars, selfTestVars,
                   ownerHistory, held, stems>>

NamesNext == SaveNextDocument

NamesSpec == NamesInit /\ [][NamesNext]_vars

---------------------------------------------------------------------------
(* Claims *)

TerminalPositions(msgs) == {i \in 1..Len(msgs) : msgs[i].type \in TerminalTypes}

LastEmitted == emitted[Len(emitted)]

\* Outcomes of the given kind recorded in this run.
Recorded(kind) == Cardinality({i \in 1..Len(outcomes) : outcomes[i][2] = kind})

RecordedItems == {outcomes[i][1] : i \in 1..Len(outcomes)}

\* C1: the messages the worker puts on the queue in a run hold no terminal
\* message while the worker is at work, and exactly one, the last message, once
\* the worker has finished.
C1_OneTerminalLast ==
    /\ TerminalPositions(emitted) \subseteq {Len(emitted)}
    /\ wpc \notin {"idle", "done"} => TerminalPositions(emitted) = {}
    /\ wpc = "done" => TerminalPositions(emitted) = {Len(emitted)} /\ emitted # <<>>

\* C1 witness: a worker that finished after the engine raised with
\* continue-on-error enabled.
C1_Witness ==
    /\ wpc = "done"
    /\ halt = "swallowed"
    /\ Config.CONTINUE_ON_ERROR
    /\ LastEmitted.type = "complete"

\* C2 (as claimed): the engine is asked for no result while stop_requested is set.
C2_NoEngineStepAfterStop == asked_after_stop = {}

\* C3 (as claimed): when a stop was requested while the engine was converting
\* an item and the engine returned its result, the outcome of that item is
\* recorded by the time the worker has finished.
C3_InFlightItemRecorded ==
    (wpc = "done" /\ stop_at > 0 /\ halt \notin {"raised", "swallowed"})
        => files_to_convert[stop_at] \in RecordedItems

\* C4: a run in which a stop was requested and no exception reached the worker's
\* except clause ends with a 'complete' message, never an 'error' message, whose
\* counters are the numbers of outcomes recorded.
C4_StoppedRunCompletes ==
    (wpc = "done" /\ stop_requested /\ halt # "raised")
        => /\ LastEmitted.type = "complete"
           /\ \A i \in 1..Len(emitted) : emitted[i].type # "error"
           /\ LastEmitted.stats.success = Recorded("success")
           /\ LastEmitted.stats.partial = Recorded("partial")
           /\ LastEmitted.stats.failed = Recorded("failed")
           /\ LastEmitted.stats.skipped = Recorded("skipped")

\* C4 witness: the stop check ended the loop after an outcome was recorded.
C4_Witness ==
    /\ wpc = "done"
    /\ halt = "stopped"
    /\ outcomes # <<>>
    /\ LastEmitted.type = "complete"

\* C5: under fair scheduling every run that is started is eventually retired:
\* the owner has handled its terminal message and is_running is false.
C5_RunEventuallyRetired ==
    is_running ~> (~is_running /\ wpc = "done" /\ message_queue = <<>>)

\* C5 witness: a retired run in which a stop was requested while the engine was
\* converting an item.
C5_Witness ==
    /\ ~is_running
    /\ wpc = "done"
    /\ stop_at > 0
    /\ message_queue = <<>>

\* C6 (as claimed): the four counters of the statistics object never add up to
\* more than its total_files.
C6_SumAtMostTotal ==
    stats.successful + stats.partial_success + stats.failed + stats.skipped
        <= stats.total_files

\* C7 (as claimed): a 'complete' message of a run with no stop request carries
\* counters that add up to the number of files given to the run.
C7_CompleteCountsAllItems ==
    (wpc = "done" /\ ~stop_requested /\ LastEmitted.type = "complete")
        => LastEmitted.stats.success + LastEmitted.stats.partial
           + LastEmitted.stats.failed + LastEmitted.stats.skipped = Len(files)

\* C8 (as claimed): after any sequence of update_stats calls total_processed()
\* is the sum of the four counters and is at most total_files.
C8_ProcessedWithinTotal ==
    /\ stats_msg.type = "stats" =>
           stats_msg.total_processed
               = stats_msg.stats.success + stats_msg.stats.partial
                 + stats_msg.stats.failed + stats_msg.stats.skipped
    /\ total_processed(tracker.stats) <= tracker.total_files

\* C9 (as claimed): the percentage of a progress message is
\* floor(100 * total_processed / total_files), and 0 when total_files is 0.
C9_PercentageIsFloor ==
    progress_msg.type = "progress" =>
        progress_msg.percentage
            = IF tracker.total_files = 0 THEN 0
              ELSE (100 * total_processed(tracker.stats)) \div tracker.total_files

\* C10: a percentage of 100 is returned only when total_processed has reached
\* total_files.
C10_HundredOnlyWhenAllProcessed ==
    /\ get_progress_percentage(tracker) = 100
           => total_processed(tracker.stats) >= tracker.total_files
    /\ (progress_msg.type = "progress" /\ progress_msg.percentage = 100)
           => total_processed(tracker.stats) >= tracker.total_files

\* C10 witness: the last of several files was processed and the message says 100,
\* after a message of the same tracker that said less.
C10_Witness ==
    /\ tracker.total_files > 1
    /\ total_processed(tracker.stats) = tracker.total_files
    /\ progress_msg.type = "progress"
    /\ progress_msg.percentage = 100
    /\ Percentage(tracker.total_files - 1, tracker.total_files) < 100

\* The positions in emitted of the messages of the given type.
Positions(type) == {i \in 1..Len(emitted) : emitted[i].type = type}

\* C11: every progress message the worker has put on the queue in a run carries a
\* percentage between 0 and 100 inclusive.
C11_PercentageInRange ==
    \A i \in Positions("progress") : emitted[i].percentage \in 0..100

\* C11 witness: a run whose progress messages said 0, then something in between,
\* then 100.
C11_Witness ==
    \E i, j, k \in Positions("progress") :
        /\ i < j /\ j < k
        /\ emitted[i].percentage = 0
        /\ emitted[j].percentage \in 1..99
        /\ emitted[k].percentage = 100

\* C12 (as claimed): get_eta returns the sentinel with 0 seconds exactly when
\* nothing was processed, and "00:00:00" with 0 seconds whenever total_processed
\* equals total_files.
C12_EtaSentinelAndZero ==
    /\ (eta.formatted = Calculating /\ eta.seconds = FloatZero)
           <=> total_processed(tracker.stats) = 0
    /\ total_processed(tracker.stats) = tracker.total_files
           => (eta.formatted = "00:00:00" /\ eta.seconds = FloatZero)

\* C12 (amended): get_eta returns the sentinel with 0 seconds exactly when
\* nothing was processed, and "00:00:00" with 0 seconds whenever something was
\* processed and total_processed has reached total_files.
C12_EtaSentinelOrZero ==
    /\ (eta.formatted = Calculating /\ eta.seconds = FloatZero)
           <=> total_processed(tracker.stats) = 0
    /\ eta.formatted = Calculating <=> total_processed(tracker.stats) = 0
    /\ (total_processed(tracker.stats) > 0
        /\ total_processed(tracker.stats) >= tracker.total_files)
           => (eta.formatted = "00:00:00" /\ eta.seconds = FloatZero)

\* C12 witness: all the files of a tracker were processed and get_eta returned
\* "00:00:00".
C12_Witness ==
    /\ tracker.total_files > 0
    /\ total_processed(tracker.stats) = tracker.total_files
    /\ eta.formatted = "00:00:00"
    /\ eta.seconds = FloatZero

\* C13: after reset() on a tracker in any state the four counters are zero, the
\* current index is 0, the current name is empty and both timestamp maps are
\* empty, get_progress_percentage() is 0 and get_eta() returns the sentinel.
C13_ResetReinitialises ==
    reset_from # <<>> =>
        /\ tracker.stats = ConversionStats
        /\ tracker.current_file_index = 0
        /\ tracker.current_filename = <<>>
        /\ tracker.file_start_times = {}
        /\ tracker.file_end_times = {}
        /\ get_progress_percentage(tracker) = 0
        /\ progress_msg.percentage = 0
        /\ eta = [seconds |-> FloatZero, formatted |-> Calculating]

\* C13 witness: reset() was called on a tracker with three counters positive,
\* a current file and timestamps, which reported more than 0 percent.
C13_Witness ==
    /\ reset_from # <<>>
    /\ reset_from[1].stats.success > 0
    /\ reset_from[1].stats.failed > 0
    /\ reset_from[1].stats.skipped > 0
    /\ reset_from[1].current_filename # <<>>
    /\ reset_from[1].file_end_times # {}
    /\ get_progress_percentage(reset_from[1]) > 0
    /\ progress_msg.percentage = 0

\* The change of a counter of the tracker in a step.
CounterStep(counter) == tracker'.stats[counter] - tracker.stats[counter]

\* The step is an iteration of the self-test that passed this status to
\* update_stats.
UpdateStatsCalled(status) ==
    /\ tracker'.current_file_index = tracker.current_file_index + 1
    /\ tracker'.stats = update_stats(tracker, status).stats

\* C14: update_stats with a recognised status adds exactly 1 to the counter of
\* that status and leaves the other three as they were; with an unrecognised
\* status it leaves all four as they were.
C14_UpdateStatsFrame ==
    [][\A status \in StatusStrings :
          UpdateStatsCalled(status) =>
              \A counter \in {"success", "partial", "failed", "skipped"} :
                  CounterStep(counter)
                      = IF counter = StatusKind(status) THEN 1 ELSE 0]_vars

\* C14 witness: update_stats was called with recognised statuses of two kinds and
\* with an unrecognised status.
C14_Witness ==
    /\ reset_from = <<>>
    /\ tracker.stats.success > 0
    /\ tracker.stats.failed = 1
    /\ tracker.current_file_index = total_processed(tracker.stats) + 1

\* The items the pre-filter has examined and rejected in this run.
Rejected ==
    {k \in 1..fi : Config.MAX_FILE_SIZE > 0 /\ files[k] > Config.MAX_FILE_SIZE}

\* The items handed to the engine (the source list of convert_all), and those
\* whose result the engine has been asked for.
Submitted == {files_to_convert[i] : i \in 1..Len(files_to_convert)}
EngineAsked == {files_to_convert[i] : i \in 1..idx}

\* C15: an item rejected by the pre-filter is never handed to the engine, and it
\* is counted as skipped exactly once.
C15_RejectedNeverSubmitted ==
    wpc \notin {"idle", "begin", "setup"} =>
        /\ Rejected \cap Submitted = {}
        /\ Rejected \cap EngineAsked = {}
        /\ \A k \in Rejected :
               Cardinality({i \in 1..Len(outcomes) : outcomes[i][1] = k}) = 1
        /\ \A k \in Rejected : <<k, "skipped">> \in {outcomes[i] : i \in 1..Len(outcomes)}
        /\ stats.skipped = Cardinality(Rejected)

\* C15 witness: of two files the first was rejected, and the engine has
\* converted the second.
C15_Witness ==
    /\ wpc = "done"
    /\ Len(files) = 2
    /\ Rejected = {1}
    /\ EngineAsked = {2}
    /\ Recorded("success") = 1

\* C16 (as claimed): once the pre-filter is finished and the tracker exists, the
\* items the filter rejected are counted by the tracker, as skipped and in its
\* total_files, and every stats message carries them.
C16_SkippedCountInTracker ==
    (/\ fi = Len(files)
     /\ files_to_convert # <<>>
     /\ wpc \notin {"idle", "begin", "setup", "filter"}) =>
        /\ tracker.stats.skipped = Cardinality(Rejected)
        /\ tracker.total_files = Len(files)
        /\ \A i \in Positions("stats") :
               emitted[i].stats.skipped = Cardinality(Rejected)

\* C17: the skipped counter of a 'complete' message is the number of items the
\* pre-filter excluded, also when it excluded every item.
C17_CompleteCountsSkipped ==
    (wpc = "done" /\ LastEmitted.type = "complete") =>
        /\ fi = Len(files)
        /\ LastEmitted.stats.skipped = Cardinality(Rejected)
        /\ LastEmitted.stats.skipped = Len(files) - Len(files_to_convert)

\* C17 witness: both files of a run were excluded and the 'complete' message
\* says 2 skipped.
C17_Witness ==
    /\ wpc = "done"
    /\ halt = "empty"
    /\ Len(files) = 2
    /\ LastEmitted.type = "complete"
    /\ LastEmitted.stats.skipped = 2

\* C18 (as claimed): the events of an item end with a log message, then a
\* progress message, then a stats message: every stats message comes directly
\* after a progress message, which comes directly after a log message.
C18_LogProgressStats ==
    \A i \in Positions("stats") :
        /\ i > 2
        /\ emitted[i - 1].type = "progress"
        /\ emitted[i - 2].type = "log"

\* The place in the submission order of the item a message names: 'current' of
\* a progress message, the place in files_to_convert of the file a log message
\* names; 0 if the message names no submitted item.
SubmissionIndex(msg) ==
    IF msg.type = "progress" THEN msg.current
    ELSE IF msg.type = "log" /\ msg.item \in Submitted
    THEN CHOOSE j \in 1..Len(files_to_convert) : files_to_convert[j] = msg.item
    ELSE 0

\* C19: the messages that name a submitted item are emitted in submission
\* order, and 'current' of the progress messages never decreases.
C19_SubmissionOrder ==
    /\ \A i, j \in 1..Len(emitted) :
           (i < j /\ SubmissionIndex(emitted[i]) > 0 /\ SubmissionIndex(emitted[j]) > 0)
               => SubmissionIndex(emitted[i]) <= SubmissionIndex(emitted[j])
    /\ \A i, j \in Positions("progress") :
           i < j => emitted[i].current <= emitted[j].current

\* C19 witness: a finished run of two submitted items with progress and log
\* messages for both.
C19_Witness ==
    /\ wpc = "done"
    /\ Len(files_to_convert) = 2
    /\ \A n \in {1, 2} :
           /\ \E i \in Positions("progress") : emitted[i].current = n
           /\ \E i \in Positions("log") : SubmissionIndex(emitted[i]) = n

\* The step is a loop body whose save raised: it emits the 'save error' log.
SaveFailed ==
    /\ wpc = "body"
    /\ \E i \in (Len(emitted) + 1)..Len(emitted') :
           emitted'[i].type = "log" /\ emitted'[i].message = "save error"

\* C20: a loop body whose save raised, for a result of status SUCCESS or
\* PARTIAL_SUCCESS, adds one to the failed counter of the run's statistics and
\* of the tracker, and leaves every other counter as it was.
C20_SaveFailureCountsFailed ==
    [][SaveFailed =>
          /\ conv_result.status \in {"SUCCESS", "PARTIAL_SUCCESS"}
          /\ stats' = [stats EXCEPT !.failed = @ + 1]
          /\ tracker'.stats = [tracker.stats EXCEPT !.failed = @ + 1]
          /\ outcomes' = Append(outcomes, <<files_to_convert[idx], "failed">>)]_vars

\* C20 witness: the save of a SUCCESS result and the save of a PARTIAL_SUCCESS
\* result have both raised: two failures, no success, no partial success.
C20_Witness ==
    /\ wpc = "next"
    /\ idx = 2
    /\ conv_result.status = "PARTIAL_SUCCESS"
    /\ Cardinality({i \in Positions("log") :
                       ~emitted[i].formatted /\ emitted[i].message = "save error"}) = 2
    /\ stats.failed = 2 /\ stats.successful = 0 /\ stats.partial_success = 0
    /\ tracker.stats.failed = 2 /\ tracker.stats.success = 0 /\ tracker.stats.partial = 0

\* C21 (as claimed): with CONTINUE_ON_ERROR off, a run in which an outcome
\* 'failed' was recorded ends with an 'error' message, and the failed outcome is
\* the last outcome of the run.
C21_FailedOutcomeAborts ==
    (wpc = "done" /\ ~Config.CONTINUE_ON_ERROR /\ Recorded("failed") > 0)
        => /\ LastEmitted.type = "error"
           /\ outcomes[Len(outcomes)][2] = "failed"
           /\ Recorded("failed") = 1

\* C22 (as claimed): with CONTINUE_ON_ERROR on, an exception of the engine is
\* recorded as a failed outcome of the item the engine was converting, and every
\* submitted item has an outcome by the time the worker has finished.
C22_EngineExceptionIsFailedOutcome ==
    (wpc = "done" /\ halt = "swallowed")
        => /\ <<files_to_convert[idx], "failed">> \in {outcomes[i] : i \in 1..Len(outcomes)}
           /\ stats.failed > 0
           /\ Submitted \subseteq RecordedItems

\* The engine raised in this run: the except clause of convert_documents has
\* logged the exception.
EngineRaised ==
    \E i \in Positions("log") : emitted[i].message = "critical error"

\* C23: with CONTINUE_ON_ERROR off, once the engine has raised for item idx and
\* the worker has finished, exactly one 'error' message was put and it is the
\* last message, no 'complete' message was put, every item before idx has its
\* outcome and its closing messages, no message names item idx or a later item
\* (but for the progress message put for item 1 before the loop); and
\* is_running falls only in the poll that handles that 'error' message, which
\* is then the only terminal message handled in the run.
C23_EngineRaiseEndsRun ==
    /\ [](( EngineRaised /\ ~Config.CONTINUE_ON_ERROR /\ wpc = "done") =>
            /\ Cardinality(Positions("error")) = 1
            /\ LastEmitted.type = "error"
            /\ Positions("complete") = {}
            /\ Len(outcomes) - Recorded("skipped") = idx - 1
            /\ Cardinality(Positions("stats")) = idx - 1
            /\ \A i \in 1..Len(emitted) :
                   \/ SubmissionIndex(emitted[i]) < idx
                   \/ /\ idx = 1
                      /\ emitted[i] = to_progress_message(
                             start_file(ProgressTracker(Len(files_to_convert)),
                                        <<files_to_convert[1]>>, 1)))
    /\ [][(EngineRaised /\ ~Config.CONTINUE_ON_ERROR /\ is_running /\ ~is_running') =>
             /\ wpc = "done"
             /\ handled' = emitted
             /\ Cardinality(TerminalPositions(handled')) = 1
             /\ handled'[Len(handled')].type = "error"]_vars

\* C23 witness: the engine raised for the second item with CONTINUE_ON_ERROR
\* off, and the owner has handled the 'error' message.
C23_Witness ==
    /\ EngineRaised
    /\ ~Config.CONTINUE_ON_ERROR
    /\ wpc = "done"
    /\ idx = 2
    /\ Len(outcomes) = 1
    /\ ~is_running
    /\ handled = emitted
    /\ LastEmitted.type = "error"

\* C24: an exception raised in a run never ends the worker thread: one that
\* reaches _conversion_worker is in its except clause or has become the 'error'
\* message that ends the run, one that convert_documents swallows lets the
\* worker go on to its 'complete' message, and a worker that has finished has
\* put a terminal message as its last act.
C24_NoExceptionEscapes ==
    /\ wpc = "done" => emitted # <<>> /\ LastEmitted.type \in TerminalTypes
    /\ halt = "raised" =>
           \/ wpc = "except"
           \/ wpc = "done" /\ LastEmitted.type = "error"
    /\ halt = "swallowed" =>
           \/ wpc = "complete"
           \/ wpc = "done" /\ LastEmitted.type = "complete"

\* C24 witness: stat() raised in the pre-filter, outside the try statement of
\* convert_documents, and the worker ended the run with an 'error' message.
C24_Witness ==
    /\ wpc = "done"
    /\ halt = "raised"
    /\ fi < Len(files)
    /\ ~EngineRaised
    /\ LastEmitted.type = "error"

\* C25: the messages the owner has handled in a run, followed by those still
\* on the queue, are the messages the worker has put, in the order it put them;
\* and once the run is over (the worker has finished and is_running is false)
\* every one of them has been handled.
C25_HandledInOrderOnce ==
    /\ handled \o message_queue = emitted
    /\ (wpc = "done" /\ ~is_running) => handled = emitted /\ message_queue = <<>>

\* C25 witness: a run that takes several polls: messages handled in an earlier
\* poll, and later messages, the terminal message among them, still on the queue.
C25_Witness ==
    /\ wpc = "done"
    /\ is_running
    /\ Len(handled) >= 2
    /\ Len(message_queue) >= 2
    /\ message_queue[Len(message_queue)].type = "complete"

\* The step starts a worker thread.
WorkerStarts == wpc # "begin" /\ wpc' = "begin"

\* C26: a worker thread is started only when is_running is false, no worker is
\* at work, the queue is empty and, if there was a run before, the owner has
\* handled all its messages, the last of them its terminal message.
C26_OneWorkerAtATime ==
    [][WorkerStarts =>
          /\ ~is_running
          /\ is_running'
          /\ wpc \in {"idle", "done"}
          /\ message_queue = <<>>
          /\ wpc = "done" =>
                 /\ handled = emitted
                 /\ handled[Len(handled)].type \in TerminalTypes]_vars

\* C26 witness: the worker of a second run has just been started; the class
\* Config still holds the settings of the first run.
C26_Witness ==
    /\ wpc = "begin"
    /\ is_running
    /\ Config # NoConfig
    /\ handled = <<>>
    /\ emitted = <<>>

\* The last progress message of the run.
LastProgress ==
    emitted[CHOOSE i \in Positions("progress") : \A j \in Positions("progress") : j <= i]

\* C27 (as claimed): with CONTINUE_ON_ERROR on, no stop request and no
\* exception, the run ends with a 'complete' message whose counters are the
\* numbers of outcomes of each kind, and the last progress message of the run
\* shows 100 percent.
C27_CompleteAndHundredPercent ==
    (wpc = "done" /\ Config.CONTINUE_ON_ERROR /\ ~stop_requested
                  /\ halt \in {"exhausted", "empty"})
        => /\ LastEmitted.type = "complete"
           /\ LastEmitted.stats.success = Recorded("success")
           /\ LastEmitted.stats.partial = Recorded("partial")
           /\ LastEmitted.stats.failed = Recorded("failed")
           /\ LastEmitted.stats.skipped = Recorded("skipped")
           /\ Len(outcomes) = Len(files)
           /\ Positions("progress") # {}
           /\ LastProgress.percentage = 100

PollStep ==
    \/ Len(message_queue') < Len(message_queue)
    \/ handled' # handled
    \/ poll_scheduled' # poll_scheduled

C30_RunningFlagFlips ==
    /\ [][(is_running /\ ~is_running') =>
             /\ TerminalPositions(message_queue) # {}
             /\ handled' = handled \o message_queue]_vars
    /\ [][(~is_running /\ is_running') => WorkerStarts /\ emitted' = <<>>]_vars
    /\ [](is_running => poll_scheduled /\ TerminalPositions(handled) = {})
    /\ [](~is_running => wpc \in {"idle", "done"})

\* C30 witness: a stop was requested during the run, is_running stayed set
\* until the poll that handled the 'complete' message, and is now clear.
C30_Witness ==
    /\ wpc = "done"
    /\ stop_requested
    /\ ~is_running
    /\ ~poll_scheduled
    /\ handled # <<>>
    /\ handled[Len(handled)].type = "complete"

\* The step is a step of the worker thread: its position moves on, or the
\* pre-filter has examined one more file.
WorkerStep == ~WorkerStarts /\ (wpc' # wpc \/ fi' # fi)

\* C31: no step of the worker thread changes is_running or stop_requested;
\* stop_requested is set only by stop_conversion (during a run, nothing of the
\* worker changing in that step) and cleared only by the step of
\* start_conversion that starts the worker.
C31_FlagsWrittenByOwner ==
    /\ [][WorkerStep => UNCHANGED <<is_running, stop_requested>>]_vars
    /\ [][(~stop_requested /\ stop_requested') =>
             is_running /\ UNCHANGED <<workerVars, tracker, is_running>>]_vars
    /\ [][(stop_requested /\ ~stop_requested') => WorkerStarts]_vars

\* C31 witness: the worker ran to its end with the stop flag set by the owner
\* while the engine was converting the first item; both flags are still set.
C31_Witness ==
    /\ wpc = "done"
    /\ stop_at = 1
    /\ stop_requested
    /\ is_running
    /\ halt = "stopped"

CountersLeq(a, b) ==
    \A counter \in {"success", "partial", "failed", "skipped"} :
        a[counter] <= b[counter]

\* The counters of the run's DocumentConversionStats, named as in the messages.
StatsCounters(st) ==
    [success |-> st.successful, partial |-> st.partial_success,
     failed |-> st.failed, skipped |-> st.skipped]

\* C34: when a worker starts, the four counters of its statistics and of the
\* tracker are zero; in every other step none of them decreases; and of two
\* stats messages of a run the later carries counters at least those of the
\* earlier, each of them.
C34_CountersStartAtZeroNeverDecrease ==
    /\ [](\A i, j \in Positions("stats") :
             i <= j => CountersLeq(emitted[i].stats, emitted[j].stats))
    /\ [][WorkerStarts =>
             /\ StatsCounters(stats') = ConversionStats
             /\ tracker'.stats = ConversionStats]_vars
    /\ [][~WorkerStarts =>
             /\ CountersLeq(StatsCounters(stats), StatsCounters(stats'))
             /\ CountersLeq(tracker.stats, tracker'.stats)]_vars

\* C34 witness: a run has put two stats messages, the first counting a
\* success and the second a failure as well.
C34_Witness ==
    /\ Cardinality(Positions("stats")) = 2
    /\ tracker.stats.success = 1
    /\ tracker.stats.failed = 1
    /\ \E i \in Positions("stats") : emitted[i].stats.failed = 0


\* The counters of conversion outcomes: skipped is counted by the pre-filter.
OutcomeCounters == {"success", "partial", "failed"}

\* The two dictionaries of counters agree on success, partial and failed.
SameOutcomes(a, b) == \A counter \in OutcomeCounters : a[counter] = b[counter]

\* The last stats message of the run.
LastStats ==
    emitted[CHOOSE i \in Positions("stats") : \A j \in Positions("stats") : j <= i]

\* The messages put in this step.
NewMessages == {emitted'[i] : i \in (Len(emitted) + 1)..Len(emitted')}

\* C35: the tracker and the statistics of the run agree on success, partial and
\* failed; a stats message carries, for these three, the counters the
\* statistics hold once it is put; and the complete message carries those of
\* the last stats message of the run, or zeros if there was none.
C35_TrackerAgreesWithStats ==
    /\ [](SameOutcomes(tracker.stats, StatsCounters(stats)))
    /\ [][(WorkerStep /\ Len(emitted') > Len(emitted)) =>
             \A msg \in NewMessages :
                 msg.type = "stats" =>
                     SameOutcomes(msg.stats, StatsCounters(stats'))]_vars
    /\ []((emitted # <<>> /\ LastEmitted.type = "complete") =>
             SameOutcomes(LastEmitted.stats,
                          IF Positions("stats") = {} THEN ConversionStats
                          ELSE LastStats.stats))

\* C35 witness: the run is complete with one file skipped by the pre-filter and
\* one failed; the last stats message counts the failure and not the skip.
C35_Witness ==
    /\ emitted # <<>>
    /\ LastEmitted.type = "complete"
    /\ LastEmitted.stats.failed = 1
    /\ LastEmitted.stats.skipped = 1
    /\ Positions("stats") # {}
    /\ LastStats.stats.skipped = 0


\* The step handles a result in the loop body, in whichever branch.
ResultHandled == wpc = "body" /\ wpc' = "next"

\* Exactly one of success, partial and failed is one more in b than in a, the
\* other two and skipped are as in a.
OneOutcomeCounted(a, b) ==
    /\ \E counter \in OutcomeCounters :
          /\ b[counter] = a[counter] + 1
          /\ \A other \in OutcomeCounters \ {counter} : b[other] = a[other]
    /\ b.skipped = a.skipped

\* C36: the step of the loop body that handles a result adds one to exactly one
\* of success, partial and failed, in the statistics and in the tracker, so
\* that total_processed is one more; no other step of the worker, the stop
\* check that discards a result among them, changes these three counters.
C36_OneCountPerResult ==
    /\ [][ResultHandled =>
             /\ OneOutcomeCounted(StatsCounters(stats), StatsCounters(stats'))
             /\ OneOutcomeCounted(tracker.stats, tracker'.stats)
             /\ total_processed(tracker'.stats) = total_processed(tracker.stats) + 1
             /\ total_processed(StatsCounters(stats'))
                    = total_processed(StatsCounters(stats)) + 1]_vars
    /\ [][(WorkerStep /\ ~ResultHandled) =>
             /\ SameOutcomes(StatsCounters(stats), StatsCounters(stats'))
             /\ SameOutcomes(tracker.stats, tracker'.stats)]_vars

\* C36 witness: two results were handled, a partial success and then a success
\* whose save failed.
C36_Witness ==
    /\ wpc = "next"
    /\ conv_result.status = "SUCCESS"
    /\ stats.partial_success = 1
    /\ stats.failed = 1
    /\ total_processed(tracker.stats) = 2


\* C37: the step that starts a worker leaves stop_requested false; a
\* stop_conversion call while no run is active changes nothing; and the result
\* loop of a run ends on the stop check only with the flag set, hence set
\* during that run.
C37_StopDoesNotOutliveRun ==
    /\ [][WorkerStarts => ~stop_requested']_vars
    /\ [][(~is_running /\ ~WorkerStarts) => UNCHANGED stop_requested]_vars
    /\ [](halt = "stopped" => stop_requested)

\* C37 witness: a worker has been started, and not yet run, with the flag
\* clear; the flag was still set from the run before when start_conversion
\* was called.
C37_Witness ==
    /\ stale_stop
    /\ ~stop_requested
    /\ is_running
    /\ wpc = "begin"


C39_RejectedStartChangesNothing ==
    [][(start_conversion /\ ~WorkerStarts) =>
          UNCHANGED <<is_running, stop_requested, poll_scheduled, message_queue,
                      workerVars, tracker, historyVars, ownerHistory>>]_vars

\* C39 witness: after a run that was stopped, the settings read by a rejected
\* call do not validate; the stop flag is still set, no run is active, no
\* timer is set and the worker is where it ended.
C39_Witness ==
    /\ validate_config(config) # {}
    /\ ~is_running
    /\ stop_requested
    /\ ~poll_scheduled
    /\ wpc = "done"
    /\ halt = "stopped"


\* C40: the names generate_unique_output_name has returned in a run are
\* pairwise different, they are the members of used_names, and each is the
\* stem of its item followed by ".md" or by "_", a number and ".md".
C40_OutputNamesDistinct ==
    /\ Len(output_names) <= Len(stems)
    /\ \A i, j \in 1..Len(output_names) :
          i # j => output_names[i] # output_names[j]
    /\ used_names = {output_names[i] : i \in 1..Len(output_names)}
    /\ \A i \in 1..Len(output_names) :
          \/ output_names[i] = stems[i] \o ".md"
          \/ \E counter \in 1..MaxStems :
                output_names[i] = stems[i] \o "_" \o Decimal(counter) \o ".md"

\* C40 witness: two items share the stem "a" and a third has the stem "a_1",
\* the name generated for the second; the third is saved as "a_1_1.md".
C40_Witness ==
    /\ Len(output_names) >= 3
    /\ stems[1] = stems[2]
    /\ output_names[2] = stems[3] \o ".md"
    /\ output_names[3] = "a_1_1.md"

====
